---- MODULE Spec2Model ----
(***************************************************************************)
(* Model of the interactive Fibonacci program, src/fibonacci/src/main.rs.  *)
(* One process (main); each action is one step of main between two         *)
(* observable effects (a println!, the blocking read_line, a loop          *)
(* iteration).  Text is modelled at the character level: an input line is  *)
(* a sequence of one-character strings, and trim/parse/Display are         *)
(* computed the way the standard library computes them.                    *)
(***************************************************************************)
EXTENDS Integers, Sequences, FiniteSets

VARIABLES
    pc,               \* position of main
    stdin,            \* what read_line has returned so far, oldest first
    eof,              \* the input stream has signalled end-of-stream
    stdout,           \* lines written by println!, oldest first
    n,                \* the String buffer of the current loop iteration
    num,              \* the i32 bound by `Ok(num) => num`
    fibo_n,           \* the value the validation loop broke with
    a1, a2, count, temp,
    overflow_checks   \* build profile: TRUE = arithmetic overflow panics

vars == <<pc, stdin, eof, stdout, n, num, fibo_n, a1, a2, count, temp, overflow_checks>>

---------------------------------------------------------------------------
(* Bounds of the model *)

\* largest index the environment types in as a plain decimal line
MaxN == 50
\* number of read_line calls explored in one run
MaxReads == 2

---------------------------------------------------------------------------
(* Integer types.  An i32 is an integer in I32Min..I32Max.  A u32 is the   *)
(* pair <<hi, lo>> of its two 16-bit halves, hi * Half + lo.  A variable    *)
(* whose `let` has not run yet holds None; an i32 variable that is bound    *)
(* holds Some(v).                                                           *)

I32Max == 2147483647
I32Min == -I32Max - 1
Half == 65536

None == <<>>
Some(v) == <<v>>
Val(x) == x[1]

\* the u32 written as the literal k
U32(k) == <<k \div Half, k % Half>>

\* the accumulators are declared i32: the sum leaves the type at 2^31
AddAsI32(x, y) ==
    LET lo == x[2] + y[2]
        hi == x[1] + y[1] + (lo \div Half)
    IN  [val |-> <<hi % Half, lo % Half>>, overflow |-> 2 * hi >= Half]

\* a + b on u32: the wrapped sum, and whether the true sum left the type
AddU32(x, y) ==
    LET lo == x[2] + y[2]
        hi == x[1] + y[1] + (lo \div Half)
    IN  [val |-> <<hi % Half, lo % Half>>, overflow |-> hi >= Half]

---------------------------------------------------------------------------
(* Text *)

Digits == <<"0", "1", "2", "3", "4", "5", "6", "7", "8", "9">>

IsDigit(c) == \E i \in 1..10 : Digits[i] = c

DigitVal(c) == (CHOOSE i \in 1..10 : Digits[i] = c) - 1

\* char::is_whitespace, restricted to the characters of the model
IsWhitespace(c) == c \in {" ", "\t", "\n", "\r"}

RECURSIVE TrimStart(_)
TrimStart(s) ==
    IF s # <<>> /\ IsWhitespace(Head(s)) THEN TrimStart(Tail(s)) ELSE s

RECURSIVE TrimEnd(_)
TrimEnd(s) ==
    IF s # <<>> /\ IsWhitespace(s[Len(s)])
    THEN TrimEnd(SubSeq(s, 1, Len(s) - 1))
    ELSE s

\* str::trim
Trim(s) == TrimEnd(TrimStart(s))

ParseErr == [ok |-> FALSE, val |-> 0]

\* the digit loop of i32::from_str: checked_mul by 10, then checked_add
\* (no sign or '+') or checked_sub ('-') of the digit
RECURSIVE ParseDigits(_, _, _)
ParseDigits(s, acc, positive) ==
    IF s = <<>> THEN [ok |-> TRUE, val |-> acc]
    ELSE IF ~IsDigit(Head(s)) THEN ParseErr
    ELSE LET d == DigitVal(Head(s))
         IN  IF positive
             THEN IF acc > I32Max \div 10 \/ acc * 10 > I32Max - d
                  THEN ParseErr
                  ELSE ParseDigits(Tail(s), acc * 10 + d, positive)
             ELSE IF acc < -(I32Max \div 10) \/ acc * 10 < I32Min + d
                  THEN ParseErr
                  ELSE ParseDigits(Tail(s), acc * 10 - d, positive)

\* str::parse::<i32>
ParseI32(s) ==
    IF s = <<>> THEN ParseErr
    ELSE IF Head(s) \in {"+", "-"}
         THEN IF Len(s) = 1 THEN ParseErr
              ELSE ParseDigits(Tail(s), 0, Head(s) = "+")
         ELSE ParseDigits(s, 0, TRUE)

\* decimal digits of a non-negative i32, most significant first
RECURSIVE DecChars(_)
DecChars(k) ==
    IF k < 10 THEN <<Digits[k + 1]>>
    ELSE Append(DecChars(k \div 10), Digits[(k % 10) + 1])

\* decimal digits of a u32: long division by ten over the two halves
RECURSIVE DecCharsU32(_)
DecCharsU32(x) ==
    IF x[1] = 0 THEN DecChars(x[2])
    ELSE LET t == (x[1] % 10) * Half + x[2]
         IN  Append(DecCharsU32(<<x[1] \div 10, t \div 10>>), Digits[(t % 10) + 1])

RECURSIVE Join(_)
Join(s) == IF s = <<>> THEN "" ELSE Head(s) \o Join(Tail(s))

\* Display for i32, as `{}` formats it
Display(k) == IF k < 0 THEN "-" \o Join(DecChars(-k)) ELSE Join(DecChars(k))

\* Display for u32
DisplayU32(x) == Join(DecCharsU32(x))

---------------------------------------------------------------------------
(* Output lines.  A line is the sequence of pieces println! writes: the    *)
(* literal pieces of the format string and the Display of each argument.  *)

PromptLine      == <<"Enter n:">>
InvalidLine     == <<"Enter a valid number">>
NonNegativeLine == <<"Enter a non-negative integer">>

ZeroLine(k)      == <<Display(k), "th fibonacci number is 0">>
OneLine(k)       == <<Display(k), "th fibonacci number is 1">>
ResultLine(k, v) == <<"The ", Display(k), "th fibonacci number is: ", DisplayU32(v)>>

\* the text of a line as it appears on the terminal
Text(l) == Join(l)

---------------------------------------------------------------------------
(* The environment: what a call of read_line can return *)

Newline == <<"\n">>

\* the lines a user types a plain index with
NumberLines == {DecChars(k) \o Newline : k \in 0..MaxN}

OtherLines ==
    { <<"a", "b", "c">> \o Newline,
      Newline,
      <<"3", ".", "5">> \o Newline,
      <<"-", "5">> \o Newline,
      <<"-", "3">> \o Newline,
      <<"2", "1", "4", "7", "4", "8", "3", "6", "4", "8">> \o Newline,
      <<" ", "7", " ">> \o Newline,
      <<"+", "7">> \o Newline }

Lines == NumberLines \cup OtherLines

\* read_line returned Ok(0): nothing was appended to the buffer
EndOfStream == [kind |-> "eof", text |-> <<>>]
\* read_line returned Ok(k), k > 0, having appended `l`
Got(l) == [kind |-> "line", text |-> l]

---------------------------------------------------------------------------
(* main *)

Init ==
    /\ pc = "prompt"
    /\ stdin = <<>>
    /\ eof = FALSE
    /\ stdout = <<>>
    /\ n = <<>>
    /\ num = None
    /\ fibo_n = None
    /\ a1 = None
    /\ a2 = None
    /\ count = None
    /\ temp = None
    /\ overflow_checks \in BOOLEAN

\* the buffer is created once, before the loop: read_line appends to it
PromptKeepsBuffer ==
    /\ pc = "prompt"
    /\ stdout' = Append(stdout, PromptLine)
    /\ pc' = "read"
    /\ UNCHANGED <<stdin, eof, n, num, fibo_n, a1, a2, count, temp, overflow_checks>>

\* lines 5-6: println!("Enter n:"); let mut n = String::new();
Prompt ==
    /\ pc = "prompt"
    /\ stdout' = Append(stdout, PromptLine)
    /\ n' = <<>>
    /\ pc' = "read"
    /\ UNCHANGED <<stdin, eof, num, fibo_n, a1, a2, count, temp, overflow_checks>>

\* line 8, read_line returns Ok(k) with k > 0: a line was appended to n
ReadLine ==
    /\ pc = "read"
    /\ ~eof
    /\ Len(stdin) < MaxReads
    /\ \E l \in Lines :
         /\ n' = n \o l
         /\ stdin' = Append(stdin, Got(l))
    /\ pc' = "parse"
    /\ UNCHANGED <<eof, stdout, num, fibo_n, a1, a2, count, temp, overflow_checks>>

\* line 8, read_line returns Ok(0) at end-of-stream: n is left empty and
\* expect() unwraps the Ok
ReadEof ==
    /\ pc = "read"
    /\ Len(stdin) < MaxReads
    /\ eof' = TRUE
    /\ stdin' = Append(stdin, EndOfStream)
    /\ pc' = "parse"
    /\ UNCHANGED <<stdout, n, num, fibo_n, a1, a2, count, temp, overflow_checks>>

\* line 8, read_line returns Err (an I/O error, invalid UTF-8): expect() panics
ReadError ==
    /\ pc = "read"
    /\ Len(stdin) < MaxReads
    /\ pc' = "panicked"
    /\ UNCHANGED <<stdin, eof, stdout, n, num, fibo_n, a1, a2, count, temp, overflow_checks>>

\* the Err arm continues without writing its diagnostic
ParseErrSilent ==
    /\ pc = "parse"
    /\ LET r == ParseI32(Trim(n))
       IN  IF ~r.ok
           THEN /\ pc' = "prompt"
                /\ UNCHANGED <<stdout, num>>
           ELSE /\ num' = Some(r.val)
                /\ pc' = "check"
                /\ UNCHANGED stdout
    /\ UNCHANGED <<stdin, eof, n, fibo_n, a1, a2, count, temp, overflow_checks>>

\* parse().unwrap_or(0): text that does not parse counts as 0
ParseErrAsZero ==
    /\ pc = "parse"
    /\ LET r == ParseI32(Trim(n))
       IN  /\ num' = Some(r.val)
           /\ pc' = "check"
    /\ UNCHANGED <<stdin, eof, stdout, n, fibo_n, a1, a2, count, temp, overflow_checks>>

\* the Err arm goes back to read_line without passing the prompt
ParseErrSkipsPrompt ==
    /\ pc = "parse"
    /\ LET r == ParseI32(Trim(n))
       IN  IF ~r.ok
           THEN /\ stdout' = Append(stdout, InvalidLine)
                /\ pc' = "read"
                /\ UNCHANGED num
           ELSE /\ num' = Some(r.val)
                /\ pc' = "check"
                /\ UNCHANGED stdout
    /\ UNCHANGED <<stdin, eof, n, fibo_n, a1, a2, count, temp, overflow_checks>>

\* lines 10-16: match n.trim().parse()
Parse ==
    /\ pc = "parse"
    /\ LET r == ParseI32(Trim(n))
       IN  IF ~r.ok
           THEN /\ stdout' = Append(stdout, InvalidLine)
                /\ pc' = "prompt"
                /\ UNCHANGED num
           ELSE /\ num' = Some(r.val)
                /\ pc' = "check"
                /\ UNCHANGED stdout
    /\ UNCHANGED <<stdin, eof, n, fibo_n, a1, a2, count, temp, overflow_checks>>

\* the sign test is inverted: `if n > 0`
CheckInverted ==
    /\ pc = "check"
    /\ IF Val(num) > 0
       THEN /\ stdout' = Append(stdout, NonNegativeLine)
            /\ pc' = "prompt"
            /\ num' = None
            /\ UNCHANGED fibo_n
       ELSE /\ fibo_n' = num
            /\ pc' = "branch"
            /\ UNCHANGED <<stdout, num>>
    /\ UNCHANGED <<stdin, eof, n, a1, a2, count, temp, overflow_checks>>

\* the negative arm writes the other diagnostic
CheckWrongDiagnostic ==
    /\ pc = "check"
    /\ IF Val(num) < 0
       THEN /\ stdout' = Append(stdout, InvalidLine)
            /\ pc' = "prompt"
            /\ num' = None
            /\ UNCHANGED fibo_n
       ELSE /\ fibo_n' = num
            /\ pc' = "branch"
            /\ UNCHANGED <<stdout, num>>
    /\ UNCHANGED <<stdin, eof, n, a1, a2, count, temp, overflow_checks>>

\* the loop also enforces the range the result is right for: `n < 0 || n > 46`
CheckUpperBound ==
    /\ pc = "check"
    /\ IF Val(num) < 0 \/ Val(num) > 46
       THEN /\ stdout' = Append(stdout, NonNegativeLine)
            /\ pc' = "prompt"
            /\ num' = None
            /\ UNCHANGED fibo_n
       ELSE /\ fibo_n' = num
            /\ pc' = "branch"
            /\ UNCHANGED <<stdout, num>>
    /\ UNCHANGED <<stdin, eof, n, a1, a2, count, temp, overflow_checks>>

\* lines 18-22: if n < 0 { println!(...) } else { break n }
Check ==
    /\ pc = "check"
    /\ IF Val(num) < 0
       THEN /\ stdout' = Append(stdout, NonNegativeLine)
            /\ pc' = "prompt"
            /\ num' = None
            /\ UNCHANGED fibo_n
       ELSE /\ fibo_n' = num
            /\ pc' = "branch"
            /\ UNCHANGED <<stdout, num>>
    /\ UNCHANGED <<stdin, eof, n, a1, a2, count, temp, overflow_checks>>

\* the `else if fibo_n == 1` arm is missing
BranchNoOneCase ==
    /\ pc = "branch"
    /\ IF Val(fibo_n) = 0
       THEN /\ stdout' = Append(stdout, ZeroLine(Val(fibo_n)))
            /\ pc' = "done"
            /\ UNCHANGED <<a1, a2, count, temp>>
       ELSE /\ a1' = U32(0)
            /\ a2' = U32(1)
            /\ count' = Some(Val(fibo_n) - 2)
            /\ temp' = U32(0)
            /\ pc' = "loop"
            /\ UNCHANGED stdout
    /\ UNCHANGED <<stdin, eof, n, num, fibo_n, overflow_checks>>

\* lines 25-33: the two special cases, or the accumulators' initialisation
Branch ==
    /\ pc = "branch"
    /\ IF Val(fibo_n) = 0
       THEN /\ stdout' = Append(stdout, ZeroLine(Val(fibo_n)))
            /\ pc' = "done"
            /\ UNCHANGED <<a1, a2, count, temp>>
       ELSE IF Val(fibo_n) = 1
       THEN /\ stdout' = Append(stdout, OneLine(Val(fibo_n)))
            /\ pc' = "done"
            /\ UNCHANGED <<a1, a2, count, temp>>
       ELSE /\ a1' = U32(0)
            /\ a2' = U32(1)
            /\ count' = Some(Val(fibo_n) - 2)
            /\ temp' = U32(0)
            /\ pc' = "loop"
            /\ UNCHANGED stdout
    /\ UNCHANGED <<stdin, eof, n, num, fibo_n, overflow_checks>>

\* an overflowing addition may panic or wrap, whatever the build
LoopOverflowUnspecified ==
    /\ pc = "loop"
    /\ IF Val(count) > 0
       THEN LET sum == AddU32(a1, a2)
            IN  \/ /\ sum.overflow
                   /\ temp' = a2
                   /\ pc' = "panicked"
                   /\ UNCHANGED <<a1, a2, count>>
                \/ /\ temp' = a2
                   /\ a2' = sum.val
                   /\ a1' = a2
                   /\ count' = Some(Val(count) - 1)
                   /\ pc' = "loop"
       ELSE /\ pc' = "report"
            /\ UNCHANGED <<a1, a2, count, temp>>
    /\ UNCHANGED <<stdin, eof, stdout, n, num, fibo_n, overflow_checks>>

\* the body forgets `a1 = temp`
LoopNoShift ==
    /\ pc = "loop"
    /\ IF Val(count) > 0
       THEN LET sum == AddU32(a1, a2)
            IN  IF sum.overflow /\ overflow_checks
                THEN /\ temp' = a2
                     /\ pc' = "panicked"
                     /\ UNCHANGED <<a1, a2, count>>
                ELSE /\ temp' = a2
                     /\ a2' = sum.val
                     /\ count' = Some(Val(count) - 1)
                     /\ pc' = "loop"
                     /\ UNCHANGED a1
       ELSE /\ pc' = "report"
            /\ UNCHANGED <<a1, a2, count, temp>>
    /\ UNCHANGED <<stdin, eof, stdout, n, num, fibo_n, overflow_checks>>

\* the body also counts fibo_n down: `fibo_n -= 1`
LoopUsesFiboN ==
    /\ pc = "loop"
    /\ IF Val(count) > 0
       THEN LET sum == AddU32(a1, a2)
            IN  IF sum.overflow /\ overflow_checks
                THEN /\ temp' = a2
                     /\ pc' = "panicked"
                     /\ UNCHANGED <<a1, a2, count, fibo_n>>
                ELSE /\ temp' = a2
                     /\ a2' = sum.val
                     /\ a1' = a2
                     /\ count' = Some(Val(count) - 1)
                     /\ fibo_n' = Some(Val(fibo_n) - 1)
                     /\ pc' = "loop"
       ELSE /\ pc' = "report"
            /\ UNCHANGED <<a1, a2, count, temp, fibo_n>>
    /\ UNCHANGED <<stdin, eof, stdout, n, num, overflow_checks>>

\* lines 35-40: one evaluation of `while count > 0` and, if it holds, the body.
\* a1 + a2 on u32 panics when overflow checks are compiled in and wraps
\* otherwise; the panic comes after `temp = a2`.
Loop ==
    /\ pc = "loop"
    /\ IF Val(count) > 0
       THEN LET sum == AddU32(a1, a2)
            IN  IF sum.overflow /\ overflow_checks
                THEN /\ temp' = a2
                     /\ pc' = "panicked"
                     /\ UNCHANGED <<a1, a2, count>>
                ELSE /\ temp' = a2
                     /\ a2' = sum.val
                     /\ a1' = a2
                     /\ count' = Some(Val(count) - 1)
                     /\ pc' = "loop"
       ELSE /\ pc' = "report"
            /\ UNCHANGED <<a1, a2, count, temp>>
    /\ UNCHANGED <<stdin, eof, stdout, n, num, fibo_n, overflow_checks>>

\* the result is written inside the loop body, once per iteration
ReportTwice ==
    /\ pc = "report"
    /\ stdout' = stdout \o <<ResultLine(Val(fibo_n), a1), ResultLine(Val(fibo_n), a2)>>
    /\ pc' = "done"
    /\ UNCHANGED <<stdin, eof, n, num, fibo_n, a1, a2, count, temp, overflow_checks>>

\* line 42
Report ==
    /\ pc = "report"
    /\ stdout' = Append(stdout, ResultLine(Val(fibo_n), a2))
    /\ pc' = "done"
    /\ UNCHANGED <<stdin, eof, n, num, fibo_n, a1, a2, count, temp, overflow_checks>>

Next ==
    \/ Prompt
    \/ ReadLine
    \/ ReadEof
    \/ ReadError
    \/ Parse
    \/ Check
    \/ Branch
    \/ Loop
    \/ Report

Spec == Init /\ [][Next]_vars

\* main runs whenever it is not blocked in read_line; what the environment
\* delivers, and when, is not constrained
Step == Prompt \/ Parse \/ Check \/ Branch \/ Loop \/ Report

FairSpec == Spec /\ WF_vars(Step)

---------------------------------------------------------------------------
(* Vocabulary of the properties *)

Last(s) == s[Len(s)]

\* the validation loop (lines 4-23) and the computation stage (lines 25-43)
InValidation == pc \in {"prompt", "read", "parse", "check"}
InComputation == pc \in {"branch", "loop", "report", "done"}

\* a line that carries a Fibonacci value
IsResultLine(l) ==
    \E i \in 1..Len(l) :
        l[i] \in {"th fibonacci number is 0", "th fibonacci number is 1",
                  "th fibonacci number is: "}

ResultLines == {i \in 1..Len(stdout) : IsResultLine(stdout[i])}
Prompts == {i \in 1..Len(stdout) : stdout[i] = PromptLine}
Rejections == {i \in 1..Len(stdout) : stdout[i] \in {InvalidLine, NonNegativeLine}}

\* the value a result line reports, as text
Reported(l) ==
    IF Last(l) = "th fibonacci number is 0" THEN "0"
    ELSE IF Last(l) = "th fibonacci number is 1" THEN "1"
    ELSE Last(l)

\* what str::parse makes of an entry of stdin
Parsed(e) == ParseI32(Trim(e.text))
Unparseable(e) == ~Parsed(e).ok
Negative(e) == Parsed(e).ok /\ Parsed(e).val < 0
Valid(e) == Parsed(e).ok /\ Parsed(e).val >= 0

\* The Fibonacci numbers of mathematics, in decimal, least significant
\* digit first, so that no machine width is involved.
RECURSIVE AddDec(_, _, _)
AddDec(x, y, carry) ==
    IF x = <<>> /\ y = <<>>
    THEN IF carry = 0 THEN <<>> ELSE <<carry>>
    ELSE LET dx == IF x = <<>> THEN 0 ELSE Head(x)
             dy == IF y = <<>> THEN 0 ELSE Head(y)
             t  == dx + dy + carry
         IN  <<t % 10>> \o AddDec(IF x = <<>> THEN x ELSE Tail(x),
                                  IF y = <<>> THEN y ELSE Tail(y),
                                  t \div 10)

\* <<F(k), F(k+1)>>
RECURSIVE FibPair(_)
FibPair(k) ==
    IF k = 0 THEN << <<0>>, <<1>> >>
    ELSE LET p == FibPair(k - 1) IN <<p[2], AddDec(p[1], p[2], 0)>>

RECURSIVE DecText(_)
DecText(x) == IF x = <<>> THEN "" ELSE DecText(Tail(x)) \o Digits[Head(x) + 1]

\* F(k) as it is written in decimal
FibText(k) == DecText(FibPair(k)[1])

\* F(0) .. F(46), the range the value is promised for
FibTexts == [k \in 0..46 |-> FibText(k)]

---------------------------------------------------------------------------
(* C1 *)

\* C1: whenever the program has finished for an accepted n <= 46, the value
\* in its result line is the Fibonacci number F(n).
C1_ReportsFn ==
    (pc = "done" /\ Val(fibo_n) <= 46) =>
        Reported(Last(stdout)) = FibTexts[Val(fibo_n)]

---------------------------------------------------------------------------
(* C2 *)

\* C2: once read_line has signalled end-of-stream to the validation loop,
\* the program neither prompts nor reads again.
C2_EofAborts ==
    [][eof => /\ stdin' = stdin
              /\ stdout' # Append(stdout, PromptLine)]_vars

---------------------------------------------------------------------------
(* C3 *)

\* C3: whenever the computation stage is active, fibo_n is bound to a
\* non-negative integer that is the parse of the input line read last; and
\* fibo_n is bound in no other position of main.
C3_ValidatedInput ==
    /\ InComputation => fibo_n # None
    /\ InValidation => fibo_n = None
    /\ fibo_n # None =>
         /\ Val(fibo_n) >= 0
         /\ stdin # <<>>
         /\ Last(stdin).kind = "line"
         /\ Parsed(Last(stdin)) = [ok |-> TRUE, val |-> Val(fibo_n)]

C3_Witness == pc = "loop" /\ Val(fibo_n) = 7 /\ Len(stdin) = 2

---------------------------------------------------------------------------
(* C4 *)

\* the texts of the lines read so far
Texts == [i \in 1..Len(stdin) |-> stdin[i].text]

\* C4: when the line just read does not parse as an i32, the next step of
\* main writes the "Enter a valid number" diagnostic and nothing else, goes
\* back to the prompt, and leaves fibo_n unbound.
C4_UnparseableRetries ==
    [][(pc = "parse" /\ Last(stdin).kind = "line" /\ Unparseable(Last(stdin)))
         => /\ pc' = "prompt"
            /\ stdout' = Append(stdout, InvalidLine)
            /\ fibo_n' = None]_vars

\* "abc" and "3.5" were each answered by the diagnostic and a new prompt
C4_Witness ==
    /\ pc = "read"
    /\ Texts = << <<"a", "b", "c", "\n">>, <<"3", ".", "5", "\n">> >>
    /\ stdout = <<PromptLine, InvalidLine, PromptLine, InvalidLine, PromptLine>>

---------------------------------------------------------------------------
(* C5 *)

\* C5: when the line just read parses to a negative i32, the parse step
\* writes nothing, and the sign test then writes the "Enter a non-negative
\* integer" diagnostic and nothing else, goes back to the prompt, and leaves
\* fibo_n unbound.
C5_NegativeRetries ==
    [][(pc \in {"parse", "check"} /\ Negative(Last(stdin)))
         => /\ pc = "parse" => (pc' = "check" /\ stdout' = stdout)
            /\ pc = "check" => /\ pc' = "prompt"
                               /\ stdout' = Append(stdout, NonNegativeLine)
            /\ fibo_n' = None]_vars

C5_Witness ==
    /\ pc = "read"
    /\ Texts = << <<"-", "5", "\n">> >>
    /\ stdout = <<PromptLine, NonNegativeLine, PromptLine>>

---------------------------------------------------------------------------
(* C6 *)

\* every entry of stdin has been dealt with by the loop body
Settled == pc \notin {"parse", "check"}

C6_State ==
    \* no line before the last one read was a valid one, and each of them
    \* was answered by a diagnostic
    /\ \A i \in 1..(Len(stdin) - 1) :
         /\ ~Valid(stdin[i])
         /\ stdout[2 * i] \in {InvalidLine, NonNegativeLine}
    \* the loop has exited exactly if the last line read is a valid one,
    \* and then fibo_n is its value
    /\ (stdin # <<>> /\ Settled) => (fibo_n # None <=> Valid(Last(stdin)))
    /\ fibo_n # None => Val(fibo_n) = Parsed(Last(stdin)).val

\* C6: the loop exits on the first line that parses to a non-negative
\* integer, with that value; all lines before it were rejected; and once
\* fibo_n is bound, it never changes and nothing more is read.
C6_FirstValidLine ==
    /\ []C6_State
    /\ [][fibo_n # None => (fibo_n' = fibo_n /\ stdin' = stdin)]_vars

C6_Witness ==
    /\ pc = "done"
    /\ Len(stdin) = 2
    /\ Negative(stdin[1])
    /\ Val(fibo_n) = 10

---------------------------------------------------------------------------
(* C7 *)

\* C7: for n = 0 and n = 1 the accumulators and the counter are never
\* bound and the loop is never entered, and the result line reports 0 for
\* n = 0 and 1 for n = 1.
C7_BoundaryCases ==
    (fibo_n # None /\ Val(fibo_n) \in {0, 1}) =>
        /\ a1 = None /\ a2 = None /\ count = None /\ temp = None
        /\ pc \in {"branch", "done"}
        /\ pc = "done" =>
             /\ IsResultLine(Last(stdout))
             /\ Reported(Last(stdout)) = Display(Val(fibo_n))

C7_Witness == pc = "done" /\ Val(fibo_n) = 1 /\ Reported(Last(stdout)) = "1"

---------------------------------------------------------------------------
(* C8 *)

\* C8: when the stream has ended and no line read was a valid one, stdout
\* holds no result line.
C8_NoResultAfterEof ==
    (eof /\ \A i \in 1..Len(stdin) : ~Valid(stdin[i])) => ResultLines = {}

C8_Witness ==
    /\ eof
    /\ Len(stdin) = 2
    /\ stdin[1].kind = "line"
    /\ pc = "prompt"

---------------------------------------------------------------------------
(* C9 *)

\* the decimal number x (least significant digit first) is at most u32::MAX
RECURSIVE LessEqDec(_, _)
LessEqDec(x, y) ==
    IF Len(x) # Len(y) THEN Len(x) < Len(y)
    ELSE IF x = <<>> THEN TRUE
    ELSE IF Last(x) # Last(y) THEN Last(x) < Last(y)
    ELSE LessEqDec(SubSeq(x, 1, Len(x) - 1), SubSeq(y, 1, Len(y) - 1))

U32MaxDec == <<5, 9, 2, 7, 6, 9, 4, 9, 2, 4>>

\* no sum the loop forms for index k leaves u32: it forms F(2) .. F(k - 1)
NoOverflow(k) == \A j \in 2..(k - 1) : LessEqDec(FibPair(j)[1], U32MaxDec)

\* the indices among those typed in whose computation does not overflow
SafeIndices == {k \in 0..MaxN : NoOverflow(k)}

Accepted == fibo_n # None /\ Val(fibo_n) \in SafeIndices

\* C9: once a valid line with an index that does not overflow has been
\* read, main eventually ends normally with exactly one result line, which
\* is the last line of stdout; there is never more than one result line,
\* and nothing is written after the end.
C9_EventuallyReports ==
    /\ Accepted ~> (pc = "done" /\ Cardinality(ResultLines) = 1
                      /\ IsResultLine(Last(stdout)))
    /\ [](Cardinality(ResultLines) <= 1)
    /\ [][pc = "done" => stdout' = stdout]_vars

C9_Witness ==
    /\ pc = "done"
    /\ Val(fibo_n) = 48
    /\ overflow_checks
    /\ Cardinality(ResultLines) = 1

---------------------------------------------------------------------------
(* C10 *)

LinesRead == {i \in 1..Len(stdin) : stdin[i].kind = "line"}

\* a call of read_line that has been prompted for and has not returned
Pending == IF pc = "read" \/ (pc = "panicked" /\ fibo_n = None) THEN 1 ELSE 0

\* C10 as stated: whenever no read is pending, as many prompts have been
\* written as lines have been read.
C10_PromptPerLine ==
    pc \notin {"read", "panicked"} =>
        Cardinality(Prompts) = Cardinality(LinesRead)

\* C10 as amended: as many prompts have been written as calls of read_line
\* have been made; a call is made right after its prompt and, unless it
\* meets end-of-stream, puts exactly the one line it read into the buffer;
\* every call that returned and has been dealt with was answered by a
\* diagnostic, except the one whose line was accepted.
C10_PromptPerRead ==
    /\ Cardinality(Prompts) = Len(stdin) + Pending
    /\ pc = "parse" =>
         /\ Last(stdout) = PromptLine
         /\ n = Last(stdin).text
         /\ Last(stdin).kind = "line" <=> n # <<>>
    /\ Settled =>
         Len(stdin) = Cardinality(Rejections) + (IF fibo_n # None THEN 1 ELSE 0)

C10_Witness ==
    /\ pc = "done"
    /\ Len(stdin) = 2
    /\ Cardinality(Prompts) = 2
    /\ Cardinality(Rejections) = 1

---------------------------------------------------------------------------
(* C11 *)

\* F(0) .. F(MaxN), exact
ExactTexts == [k \in 0..MaxN |-> FibText(k)]

\* C11: no result line carries a wrapped value: the value a result line
\* reports for an index n >= 2 is the exact sum the additions of the loop
\* have in the integers, F(n - 1), whatever n is.
C11_NoWrappedResult ==
    \A i \in ResultLines :
        Val(fibo_n) >= 2 => Reported(stdout[i]) = ExactTexts[Val(fibo_n) - 1]

---------------------------------------------------------------------------
(* C12 *)

\* the addition the loop is about to make leaves u32
NextAddOverflows == pc = "loop" /\ Val(count) > 0 /\ AddU32(a1, a2).overflow

\* the loop is about to make its last addition, the largest of the run
AtLastAdd == pc = "loop" /\ Val(count) = 1

\* C12 as stated: no addition overflows for n <= 46, and for n = 47 some
\* addition overflows (the sums grow, so it is the last one that would) or
\* F(47) itself does not fit u32.
C12_Boundary46 ==
    /\ (NextAddOverflows => Val(fibo_n) > 46)
    /\ (AtLastAdd /\ Val(fibo_n) = 47) =>
         (NextAddOverflows \/ ~LessEqDec(FibPair(47)[1], U32MaxDec))

\* C12 as amended: no addition overflows for n <= 48, and for n = 49 the
\* last addition, F(46) + F(47), overflows.
C12_Boundary48 ==
    /\ (NextAddOverflows => Val(fibo_n) > 48)
    /\ (AtLastAdd /\ Val(fibo_n) = 49) => NextAddOverflows

C12_Witness ==
    /\ AtLastAdd
    /\ Val(fibo_n) = 49
    /\ NextAddOverflows
    /\ DisplayU32(a1) = "1836311903"
    /\ DisplayU32(a2) = "2971215073"

---------------------------------------------------------------------------
(* C13 *)

\* the trimmed text of an entry without an optional leading '+'
Unsigned(e) ==
    LET s == Trim(e.text)
    IN  IF s # <<>> /\ Head(s) = "+" THEN Tail(s) ELSE s

\* the text of the entry denotes a non-negative integer: digits only
DenotesNatural(e) ==
    /\ e.kind = "line"
    /\ Unsigned(e) # <<>>
    /\ \A i \in 1..Len(Unsigned(e)) : IsDigit(Unsigned(e)[i])

RECURSIVE StripZeros(_)
StripZeros(d) == IF Len(d) > 1 /\ Head(d) = "0" THEN StripZeros(Tail(d)) ELSE d

\* the digits of the entry as a decimal number, least significant first
Denoted(e) ==
    LET d == StripZeros(Unsigned(e))
    IN  [i \in 1..Len(d) |-> DigitVal(d[Len(d) + 1 - i])]

I32MaxDec == <<7, 4, 6, 3, 8, 4, 7, 4, 1, 2>>

FitsI32(e) == LessEqDec(Denoted(e), I32MaxDec)

\* the loop has exited with the number the entry denotes
AcceptedAs(e) ==
    /\ fibo_n # None
    /\ DecChars(Val(fibo_n)) = StripZeros(Unsigned(e))

\* C13 as stated: once a line that denotes a non-negative integer, however
\* large, has been dealt with, the loop has exited with that value.
C13_NoUpperBound ==
    (stdin # <<>> /\ Settled /\ DenotesNatural(Last(stdin)))
        => AcceptedAs(Last(stdin))

\* C13 as amended: a line that denotes a non-negative integer is accepted
\* with that value exactly if the integer fits i32, whatever its size within
\* i32; a larger one is answered by "Enter a valid number" and the loop goes
\* on.  A panic is either a failed read or an accumulator addition that
\* overflows in the computation stage.
C13_I32Bound ==
    /\ (stdin # <<>> /\ Settled /\ DenotesNatural(Last(stdin))) =>
         IF FitsI32(Last(stdin))
         THEN AcceptedAs(Last(stdin))
         ELSE /\ fibo_n = None
              /\ stdout[2 * Len(stdin)] = InvalidLine
    /\ pc = "panicked" =>
         \/ fibo_n = None /\ Last(stdout) = PromptLine
         \/ fibo_n # None /\ Val(count) > 0 /\ AddU32(a1, a2).overflow

C13_Witness ==
    /\ pc = "read"
    /\ Len(stdin) = 1
    /\ Texts[1] = <<"2", "1", "4", "7", "4", "8", "3", "6", "4", "8", "\n">>
    /\ stdout = <<PromptLine, InvalidLine, PromptLine>>

---------------------------------------------------------------------------
(* C14 *)

\* C14: the run that read "-3" and then "0" ends with one diagnostic
\* followed by the line `The 0th fibonacci number is 0`, and the run that
\* read "1" ends with the line `The 1th fibonacci number is 1`.
C14_LeadingThe ==
    /\ (pc = "done" /\ Texts = << <<"-", "3", "\n">>, <<"0", "\n">> >>) =>
         /\ Cardinality(Rejections) = 1
         /\ Text(Last(stdout)) = "The 0th fibonacci number is 0"
    /\ (pc = "done" /\ Texts = << <<"1", "\n">> >>) =>
         Text(Last(stdout)) = "The 1th fibonacci number is 1"

---------------------------------------------------------------------------
(* C15 *)

\* The run as a function of its input.  What main has written once it has
\* dealt with the entries h: a prompt for each, and a diagnostic for each
\* that is not a valid line.
RECURSIVE Transcript(_)
Transcript(h) ==
    IF h = <<>> THEN <<>>
    ELSE LET e == Last(h)
         IN  Transcript(SubSeq(h, 1, Len(h) - 1)) \o <<PromptLine>> \o
             (IF Valid(e) THEN <<>>
              ELSE IF Unparseable(e) THEN <<InvalidLine>>
              ELSE <<NonNegativeLine>>)

\* where c more iterations take the accumulators x, y (temp t)
RECURSIVE Accumulate(_, _, _, _, _)
Accumulate(x, y, t, c, checks) ==
    IF c > 0
    THEN LET s == AddU32(x, y)
         IN  IF s.overflow /\ checks
             THEN [end |-> "panicked", a1 |-> x, a2 |-> y, temp |-> y, count |-> Some(c)]
             ELSE Accumulate(y, s.val, y, c - 1, checks)
    ELSE [end |-> "done", a1 |-> x, a2 |-> y, temp |-> t, count |-> Some(c)]

\* the final state of a run whose last entry is a valid line
Outcome(h, checks) ==
    LET v == Parsed(Last(h)).val
        r == Accumulate(U32(0), U32(1), U32(0), v - 2, checks)
    IN  IF v = 0
        THEN [end |-> "done", out |-> Transcript(h) \o <<ZeroLine(v)>>,
              a1 |-> None, a2 |-> None, temp |-> None, count |-> None]
        ELSE IF v = 1
        THEN [end |-> "done", out |-> Transcript(h) \o <<OneLine(v)>>,
              a1 |-> None, a2 |-> None, temp |-> None, count |-> None]
        ELSE [end |-> r.end,
              out |-> Transcript(h) \o
                      (IF r.end = "done" THEN <<ResultLine(v, r.a2)>> ELSE <<>>),
              a1 |-> r.a1, a2 |-> r.a2, temp |-> r.temp, count |-> r.count]

\* C15: the output and the final state of a run are a function of what
\* read_line returned to it (and of the build): a run that ended in a failed
\* read has written Transcript(stdin) and one more prompt, and any other
\* finished run is in the state Outcome(stdin, overflow_checks).  Two runs
\* of one build that are fed the same input therefore end alike.
C15_Deterministic ==
    pc \in {"done", "panicked"} =>
        IF fibo_n = None
        THEN /\ pc = "panicked"
             /\ stdout = Transcript(stdin) \o <<PromptLine>>
        ELSE [end |-> pc, out |-> stdout, a1 |-> a1, a2 |-> a2,
              temp |-> temp, count |-> count]
                 = Outcome(stdin, overflow_checks)

C15_Witness ==
    /\ pc = "done"
    /\ Texts = << <<"a", "b", "c", "\n">>, <<"7", "\n">> >>
    /\ stdout = Outcome(stdin, overflow_checks).out
    /\ Len(stdout) = 4

---------------------------------------------------------------------------
(* C16 *)

\* C16: in the loop the counter stays within 0 .. n - 2, the loop is left
\* with the counter at 0, and on exit a2 is the Fibonacci number F(n)
\* (stated for n <= 46, where F(n) is promised).
C16_LoopComputesFn ==
    /\ pc \in {"loop", "report"} => Val(count) \in 0..(Val(fibo_n) - 2)
    /\ pc = "report" =>
         /\ Val(count) = 0
         /\ Val(fibo_n) <= 46 => DisplayU32(a2) = FibTexts[Val(fibo_n)]

---------------------------------------------------------------------------
(* C17 *)

\* the iterations of the loop completed so far
Iterations == Val(fibo_n) - 2 - Val(count)

\* C17: after k completed iterations, as long as F(k + 1) fits u32, a1 is
\* F(k) and a2 is F(k + 1); so the value reported for an index n >= 2 whose
\* computation does not overflow is F(n - 1).
C17_LoopInvariant ==
    /\ (pc \in {"loop", "report"} /\ Iterations + 2 \in SafeIndices) =>
         /\ Iterations \in 0..(Val(fibo_n) - 2)
         /\ DisplayU32(a1) = ExactTexts[Iterations]
         /\ DisplayU32(a2) = ExactTexts[Iterations + 1]
    /\ (pc = "done" /\ Val(fibo_n) >= 2 /\ Val(fibo_n) \in SafeIndices) =>
         Reported(Last(stdout)) = ExactTexts[Val(fibo_n) - 1]

C17_Witness ==
    /\ pc = "done"
    /\ Val(fibo_n) = 10
    /\ Text(Last(stdout)) = "The 10th fibonacci number is: 34"

---------------------------------------------------------------------------
(* C18 *)

\* the index a result line is about, as text
IndexOf(l) == IF l[1] = "The " THEN l[2] ELSE l[1]

\* C18: once fibo_n is bound, no step reads input, changes fibo_n or goes
\* back into the validation loop, and the only step that writes appends one
\* line, the first and only result line, carrying the index fibo_n, and
\* ends the program.
C18_ComputationFrame ==
    [][fibo_n # None =>
         /\ stdin' = stdin
         /\ eof' = eof
         /\ fibo_n' = fibo_n
         /\ pc' \notin {"prompt", "read", "parse", "check"}
         /\ stdout' # stdout =>
              /\ stdout' = Append(stdout, Last(stdout'))
              /\ IsResultLine(Last(stdout'))
              /\ IndexOf(Last(stdout')) = Display(Val(fibo_n))
              /\ ResultLines = {}
              /\ pc' = "done"]_vars

C18_Witness ==
    /\ pc = "done"
    /\ Val(fibo_n) = 5
    /\ stdout = <<PromptLine, ResultLine(5, U32(3))>>

====
